---- MODULE Spec2Model ----
(***************************************************************************)
(* St. Paul crime map: the REST service (rest_server.mjs) and the Vue      *)
(* client (the single-file component).                                     *)
(*                                                                         *)
(* Three specifications share the variables:                               *)
(*   SpecServer  the PUT /new-incident and DELETE /remove-incident         *)
(*               handlers, interleaved at their awaits, over the           *)
(*               Incidents table;                                          *)
(*   SpecClient  the client of a user who starts it, moves the map and     *)
(*               changes the neighborhood selection;                       *)
(*   SpecLocate  the client of a user who starts it, moves the map and     *)
(*               locates incidents.                                        *)
(* The client specifications run over a table that does not change.        *)
(*                                                                         *)
(* Abstractions.  Latitude/longitude is one integer axis: a neighborhood   *)
(* marker is a position, the visible region an interval.  A date is a day  *)
(* number, a time a second number, date_time the pair.  Free text is a     *)
(* short string.  The store executes every statement it is given; the     *)
(* only statement that can fail is an INSERT that violates the key.        *)
(***************************************************************************)
EXTENDS Integers, Sequences, FiniteSets, Bags, TLC

VARIABLES
    store,                  \* Incidents table: sequence of rows in rowid order
    handlers,               \* server: bag of request handlers (running and answered)
    initPc,                 \* client: position of initializeCrimes
    initialized,            \* client: initialized.value
    suppressNextMoveReload, \* client: suppressNextMoveReload.value
    view,                   \* client: map.leaflet.getBounds(), <<lo, hi>>
    address,                \* client: map.center.address
    visibleNeighborhoodIds, \* client: visibleNeighborhoodIds.value
    codes,                  \* client: codes.value
    neighborhoods,          \* client: neighborhoods.value
    filters,                \* client: the reactive filters object
    incidents,              \* client: incidents.value (rows on display)
    counts,                 \* client: count shown on each neighborhood marker
    ui,                     \* client: the reactive ui object
    moveHandlers,           \* client: moveend handlers suspended at nominatimReverse
    locates,                \* client: locateIncident calls suspended at nominatimSearch
    geocodeCache,           \* client: keys of geocodeCache
    selectedIncidentMarker, \* client: case of map.selectedIncidentMarker
    incidentMarkers,        \* client: cases of the incident markers on the map
    inflight,               \* client: GET /incidents requests awaiting their response
    newIncident,            \* client: the reactive newIncident form
    newIncidentErr          \* client: newIncidentErr.value

serverVars == <<store, handlers>>

formVars == <<newIncident, newIncidentErr>>

clientVars == <<initPc, initialized, suppressNextMoveReload, view, address,
                visibleNeighborhoodIds, codes, neighborhoods, filters, incidents, counts,
                ui, moveHandlers, locates, geocodeCache, selectedIncidentMarker,
                incidentMarkers, inflight, newIncident, newIncidentErr>>

vars == <<store, handlers, initPc, initialized, suppressNextMoveReload, view, address,
          visibleNeighborhoodIds, codes, neighborhoods, filters, incidents, counts,
          ui, moveHandlers, locates, geocodeCache, selectedIncidentMarker,
          incidentMarkers, inflight, newIncident, newIncidentErr>>

(***************************************************************************)
(* Bounds                                                                  *)
(***************************************************************************)
\* requests the server receives in one run
MaxRequests == 4

\* client continuations suspended at once: GET /incidents requests in
\* flight, moveend handlers and locateIncident calls
MaxPending == 2

(***************************************************************************)
(* Sequence helpers                                                        *)
(***************************************************************************)
Range(s) == {s[i] : i \in 1..Len(s)}

\* Array.prototype.filter with a membership test
FilterIn(s, set) == SelectSeq(s, LAMBDA x : x \in set)

(***************************************************************************)
(* The Incidents table and the statements the handlers run on it           *)
(* (rest_server.mjs).  A date is a day number >= 1 and a time a second     *)
(* number >= 1; 0 stands for the empty string in either.                   *)
(***************************************************************************)
CaseNumbers == {"A", "B"}

\* req.body of PUT /new-incident as the client's JSON.stringify builds it
NewIncidentBody(k, code, n, block) ==
    [case_number |-> k, date |-> 1, time |-> 1, code |-> code, incident |-> "x",
     police_grid |-> 1, neighborhood_number |-> n, block |-> block]

IncidentRow_DateOnly(b) ==
    [case_number |-> b.case_number, date_time |-> <<b.date, 0>>,
     code |-> b.code, incident |-> b.incident, police_grid |-> b.police_grid,
     neighborhood_number |-> b.neighborhood_number, block |-> b.block]

\* the row INSERT INTO Incidents stores for a body: date_time is `${date} ${time}`
IncidentRow(b) ==
    [case_number |-> b.case_number, date_time |-> <<b.date, b.time>>,
     code |-> b.code, incident |-> b.incident, police_grid |-> b.police_grid,
     neighborhood_number |-> b.neighborhood_number, block |-> b.block]

\* the table when the server starts: case "A" is on file, case "B" is not
ServerInitialStore == <<IncidentRow(NewIncidentBody("A", 1, 1, "b"))>>

PutBodies ==
    {NewIncidentBody(k, 1, 1, "b") : k \in CaseNumbers}
        \cup {NewIncidentBody("B", 0, 1, "b"), NewIncidentBody("B", 1, 1, "")}

\* bodies of PUT /new-incident with one required field missing, one for each
\* field: '' for a string, 0 for a number, as JSON carries them
IncompleteBodies ==
    LET b == NewIncidentBody("B", 1, 1, "b")
    IN  {[b EXCEPT !.case_number = ""], [b EXCEPT !.date = 0], [b EXCEPT !.time = 0],
         [b EXCEPT !.code = 0], [b EXCEPT !.incident = ""], [b EXCEPT !.police_grid = 0],
         [b EXCEPT !.neighborhood_number = 0], [b EXCEPT !.block = ""]}

DeleteBodies == {[case_number |-> k] : k \in CaseNumbers \cup {""}}

\* SELECT case_number FROM Incidents WHERE case_number = ?
SelectCase(table, k) == SelectSeq(table, LAMBDA r : r.case_number = k)

\* DELETE FROM Incidents WHERE case_number = ? : removes what matches, and
\* succeeds also when nothing matches
DeleteCase(table, k) == SelectSeq(table, LAMBDA r : r.case_number # k)

\* case_number is the key of Incidents: an INSERT of a key on file fails
KeyConstraintFails(table, k) == \E i \in 1..Len(table) : table[i].case_number = k

MissingRequiredFields_NoBlock(b) ==
    \/ b.case_number = ""
    \/ b.date = 0
    \/ b.time = 0
    \/ b.code = 0
    \/ b.incident = ""
    \/ b.police_grid = 0
    \/ b.neighborhood_number = 0

\* the if of PUT /new-incident: !x is true of '' and of 0
MissingRequiredFields(b) ==
    \/ b.case_number = ""
    \/ b.date = 0
    \/ b.time = 0
    \/ b.code = 0
    \/ b.incident = ""
    \/ b.police_grid = 0
    \/ b.neighborhood_number = 0
    \/ b.block = ""

\* a request handler: where it stands, and its response once it has answered
\* (status, text, and the rows of a GET); client tells that the request was
\* sent by the client of this model, which awaits the response
Handler(kind, body, pc, status, text) ==
    [kind |-> kind, body |-> body, pc |-> pc, status |-> status, text |-> text,
     rows |-> <<>>, client |-> FALSE]

Answered(h, status, text) == [h EXCEPT !.pc = "done", !.status = status, !.text = text]

Moved(h, pc) == [h EXCEPT !.pc = pc]

Replace(bag, old, new) == (bag (-) SetToBag({old})) (+) SetToBag({new})

Running(kind, pc) == {h \in BagToSet(handlers) : h.kind = kind /\ h.pc = pc}

\* PUT /new-incident, up to the await of the SELECT: the handler of body b
PutReceived(b) ==
    IF MissingRequiredFields(b)
    THEN Handler("put", b, "done", 400, "Missing required fields")
    ELSE Handler("put", b, "select", 0, "")

\* PUT /new-incident arrives from some user of the service
PutReceive(b) ==
    /\ BagCardinality(handlers) < MaxRequests
    /\ handlers' = handlers (+) SetToBag({PutReceived(b)})
    /\ UNCHANGED <<store, clientVars>>

PutSelect_NoCheck(h) ==
    /\ h \in Running("put", "select")
    /\ handlers' = Replace(handlers, h, Moved(h, "run"))
    /\ UNCHANGED <<store, clientVars>>

\* PUT /new-incident, the SELECT and the existence check after it
PutSelect(h) ==
    /\ h \in Running("put", "select")
    /\ LET existing == SelectCase(store, h.body.case_number)
       IN  handlers' = Replace(handlers, h,
               IF Len(existing) > 0
               THEN Answered(h, 500, "Error: case_number already exists")
               ELSE Moved(h, "run"))
    /\ UNCHANGED <<store, clientVars>>

PutAnswer_ErrorSwallowed(h, failed) == Answered(h, 200, "OK")

\* PUT /new-incident, the answer after the INSERT: 200, or the catch's 500
PutAnswer(h, failed) ==
    IF failed THEN Answered(h, 500, "Internal server error")
    ELSE Answered(h, 200, "OK")

\* PUT /new-incident, the INSERT and the answer
PutRun(h) ==
    /\ h \in Running("put", "run")
    /\ LET failed == KeyConstraintFails(store, h.body.case_number)
       IN  /\ store' = IF failed THEN store ELSE Append(store, IncidentRow(h.body))
           /\ handlers' = Replace(handlers, h, PutAnswer(h, failed))
    /\ UNCHANGED clientVars

\* DELETE /remove-incident, up to the await of the SELECT: the handler of body b
DeleteReceived(b) ==
    IF b.case_number = ""
    THEN Handler("delete", b, "done", 400, "Missing case_number")
    ELSE Handler("delete", b, "select", 0, "")

\* DELETE /remove-incident arrives from some user of the service
DeleteReceive(b) ==
    /\ BagCardinality(handlers) < MaxRequests
    /\ handlers' = handlers (+) SetToBag({DeleteReceived(b)})
    /\ UNCHANGED <<store, clientVars>>

DeleteSelect_NoCheck(h) ==
    /\ h \in Running("delete", "select")
    /\ handlers' = Replace(handlers, h, Moved(h, "run"))
    /\ UNCHANGED <<store, clientVars>>

\* DELETE /remove-incident, the SELECT and the existence check after it
DeleteSelect(h) ==
    /\ h \in Running("delete", "select")
    /\ LET existing == SelectCase(store, h.body.case_number)
       IN  handlers' = Replace(handlers, h,
               IF Len(existing) = 0
               THEN Answered(h, 500, "Error: case_number does not exist")
               ELSE Moved(h, "run"))
    /\ UNCHANGED <<store, clientVars>>

\* DELETE /remove-incident, the DELETE and the answer
DeleteRun(h) ==
    /\ h \in Running("delete", "run")
    /\ store' = DeleteCase(store, h.body.case_number)
    /\ handlers' = Replace(handlers, h, Answered(h, 200, "OK"))
    /\ UNCHANGED clientVars

(***************************************************************************)
(* GET /codes, GET /neighborhoods, GET /incidents (rest_server.mjs)        *)
(***************************************************************************)
\* the Codes and Neighborhoods tables, in key order
CodesTable == <<[code |-> 1, type |-> "Theft"]>>

NeighborhoodsTable == <<[id |-> 1, name |-> "N1"], [id |-> 2, name |-> "N2"]>>

DefaultLimit == 1000

\* the limit the client starts with and falls back to
ClientLimit == 1000

\* A text (a JavaScript string that is parsed or formatted) is the sequence
\* of its characters.
Digits == <<"0", "1", "2", "3", "4", "5", "6", "7", "8", "9">>

IsDigit(c) == \E i \in 1..Len(Digits) : Digits[i] = c

DigitValue(c) == (CHOOSE i \in 1..Len(Digits) : Digits[i] = c) - 1

\* String(n) of an integer
RECURSIVE String(_)
String(n) ==
    IF n < 0 THEN <<"-">> \o String(0 - n)
    ELSE IF n < 10 THEN <<Digits[n + 1]>>
    ELSE String(n \div 10) \o <<Digits[(n % 10) + 1]>>

\* the white space a text starts with is skipped
RECURSIVE SkipSpace(_)
SkipSpace(text) ==
    IF text # <<>> /\ Head(text) = " " THEN SkipSpace(Tail(text)) ELSE text

\* the value of the digits a text starts with, after the value so far
RECURSIVE LeadingDigits(_, _)
LeadingDigits(text, sofar) ==
    IF text # <<>> /\ IsDigit(Head(text))
    THEN LeadingDigits(Tail(text), 10 * sofar + DigitValue(Head(text)))
    ELSE sofar

\* parseInt(text, 10): white space, a sign, and the digits that follow; what
\* comes after the digits is ignored.  <<n>> for the number n, <<>> for NaN
parseInt(text) ==
    LET t == SkipSpace(text)
    IN  IF t # <<>> /\ IsDigit(Head(t)) THEN <<LeadingDigits(t, 0)>>
        ELSE IF Len(t) > 1 /\ Head(t) \in {"-", "+"} /\ IsDigit(t[2])
        THEN <<(IF Head(t) = "-" THEN 0 - LeadingDigits(Tail(t), 0)
                                 ELSE LeadingDigits(Tail(t), 0))>>
        ELSE <<>>

\* Array.prototype.join(',') of numbers, as split(',') takes it apart again:
\* the sequence of the items' texts
Join(values) == [i \in 1..Len(values) |-> String(values[i])]

\* parseIntList: a list parameter is the sequence of its comma-separated
\* items, <<>> when the parameter is absent or empty; the items that parse
\* to NaN are dropped
parseIntList(paramValue) ==
    LET parsed == [i \in 1..Len(paramValue) |-> parseInt(paramValue[i])]
        kept   == SelectSeq(parsed, LAMBDA v : v # <<>>)
    IN  [i \in 1..Len(kept) |-> kept[i][1]]

InClause_EmptyMatchesNothing(value, values) == value \in Range(values)

\* buildInClause: column IN (values), and no condition for no values
InClause(value, values) == Len(values) = 0 \/ value \in Range(values)

IncidentMatches_DateTimeBounds(r, q) ==
    /\ q.start_date # 0 => r.date_time[1] >= q.start_date
    /\ q.end_date # 0 =>
           (r.date_time[1] < q.end_date \/ (r.date_time[1] = q.end_date /\ r.date_time[2] <= 0))
    /\ InClause(r.code, parseIntList(q.code))
    /\ InClause(r.police_grid, parseIntList(q.grid))
    /\ InClause(r.neighborhood_number, parseIntList(q.neighborhood))

\* the WHERE of GET /incidents; date(date_time) is the first half of date_time
IncidentMatches(r, q) ==
    /\ q.start_date # 0 => r.date_time[1] >= q.start_date
    /\ q.end_date # 0 => r.date_time[1] <= q.end_date
    /\ InClause(r.code, parseIntList(q.code))
    /\ InClause(r.police_grid, parseIntList(q.grid))
    /\ InClause(r.neighborhood_number, parseIntList(q.neighborhood))

EffectiveLimit_NoDefault(q) ==
    LET n == parseInt(q.limit)
    IN  IF q.limit # <<>> /\ n # <<>> THEN n[1] ELSE DefaultLimit

\* the limit of GET /incidents: the parameter when it is given and parses to
\* a number > 0
EffectiveLimit(q) ==
    LET n == parseInt(q.limit)
    IN  IF q.limit # <<>> /\ n # <<>> /\ n[1] > 0 THEN n[1] ELSE DefaultLimit

Later_DateOnly(a, b) == a[1] > b[1]

\* date_time a later than date_time b
Later(a, b) == a[1] > b[1] \/ (a[1] = b[1] /\ a[2] > b[2])

\* ORDER BY date_time DESC: rows of equal date_time keep their rowid order
RECURSIVE OrderByDateTimeDesc(_)
OrderByDateTimeDesc(rows) ==
    IF Len(rows) <= 1 THEN rows
    ELSE LET rest == OrderByDateTimeDesc(Tail(rows))
             r    == Head(rows)
             k    == Cardinality({i \in 1..Len(rest) : Later(rest[i].date_time, r.date_time)})
         IN  SubSeq(rest, 1, k) \o <<r>> \o SubSeq(rest, k + 1, Len(rest))

\* the columns GET /incidents selects
SelectedColumns(r) ==
    [case_number |-> r.case_number, date |-> r.date_time[1], time |-> r.date_time[2],
     code |-> r.code, incident |-> r.incident, police_grid |-> r.police_grid,
     neighborhood_number |-> r.neighborhood_number, block |-> r.block]

GetIncidents_LimitBeforeOrder(table, q) ==
    LET matching == SelectSeq(table, LAMBDA r : IncidentMatches(r, q))
        n        == IF Len(matching) < EffectiveLimit(q) THEN Len(matching) ELSE EffectiveLimit(q)
        ordered  == OrderByDateTimeDesc(SubSeq(matching, 1, n))
    IN  [i \in 1..n |-> SelectedColumns(ordered[i])]

\* GET /incidents: WHERE, ORDER BY, LIMIT, and the selected columns
GetIncidents(table, q) ==
    LET matching == SelectSeq(table, LAMBDA r : IncidentMatches(r, q))
        ordered  == OrderByDateTimeDesc(matching)
        n        == IF Len(ordered) < EffectiveLimit(q) THEN Len(ordered) ELSE EffectiveLimit(q)
    IN  [i \in 1..n |-> SelectedColumns(ordered[i])]

\* GET /incidents, up to the await of the SELECT: the handler of query q
GetReceived(q) == Handler("get", q, "select", 0, "")

\* GET /incidents arrives from some user of the service
GetReceive(q) ==
    /\ BagCardinality(handlers) < MaxRequests
    /\ handlers' = handlers (+) SetToBag({GetReceived(q)})
    /\ UNCHANGED <<store, clientVars>>

\* GET /incidents, the SELECT and the answer
GetSelect(h) ==
    /\ h \in Running("get", "select")
    /\ handlers' = Replace(handlers, h,
           [Answered(h, 200, "") EXCEPT !.rows = GetIncidents(store, h.body)])
    /\ UNCHANGED <<store, clientVars>>

\* a query string of GET /incidents without parameters
NoParams ==
    [start_date |-> 0, end_date |-> 0, code |-> <<>>, grid |-> <<>>,
     neighborhood |-> <<>>, limit |-> <<>>]

(***************************************************************************)
(* The client (the Vue component)                                          *)
(***************************************************************************)
\* map.neighborhood_markers: the marker of id n is at position n
NeighborhoodMarkers == {1, 2}

MarkerLocation(id) == id

\* the regions the map can show: intervals of the axis at the two zooms
\* the region of L.map(...).setView(center, 12): the whole city
InitialView == <<1, 2>>

\* the regions the map can show: the whole city, or one position zoomed in
\* (position 0 has no marker)
Views == {InitialView} \cup {<<p, p>> : p \in {0} \cup {MarkerLocation(id) : id \in NeighborhoodMarkers}}

\* the table the client's server works on
ClientStore ==
    <<IncidentRow([NewIncidentBody("A", 1, 1, "b1") EXCEPT !.date = 1]),
      IncidentRow([NewIncidentBody("B", 1, 2, "b2") EXCEPT !.date = 2])>>

\* Leaflet's bounds.contains(location)
Contains(v, loc) == v[1] <= loc /\ loc <= v[2]

\* Array.prototype.filter over map.neighborhood_markers, which is in id order
RECURSIVE MarkersWithin(_, _)
MarkersWithin(v, ids) ==
    IF ids = {} THEN <<>>
    ELSE LET id == CHOOSE x \in ids : \A y \in ids : x <= y
         IN  (IF Contains(v, MarkerLocation(id)) THEN <<id>> ELSE <<>>)
                 \o MarkersWithin(v, ids \ {id})

updateVisibleNeighborhoods_Stale(v) == visibleNeighborhoodIds

\* updateVisibleNeighborhoods: the new value of visibleNeighborhoodIds when
\* the map shows v
updateVisibleNeighborhoods(v) == MarkersWithin(v, NeighborhoodMarkers)

finalNeighborhoodFilter_NoIntersect(selected, visible) ==
    IF Len(selected) > 0 THEN selected ELSE visible

finalNeighborhoodFilter_EmptyManual(selected, visible) ==
    FilterIn(selected, Range(visible))

\* computed finalNeighborhoodFilter
finalNeighborhoodFilter(selected, visible) ==
    LET manual == IF Len(selected) > 0 THEN selected ELSE visible
    IN  FilterIn(manual, Range(visible))

TypeCodes_LastOnly(catalog, t) ==
    LET of == SelectSeq(catalog, LAMBDA c : c.type = t)
    IN  IF of = <<>> THEN <<>> ELSE <<of[Len(of)].code>>

\* computed typeToCodes, for one type: the catalog's codes of that type
TypeCodes(catalog, t) ==
    LET of == SelectSeq(catalog, LAMBDA c : c.type = t)
    IN  [i \in 1..Len(of) |-> of[i].code]

\* Array.from(new Set(out)): first occurrences, in order
RECURSIVE Dedup(_)
Dedup(s) ==
    IF s = <<>> THEN <<>>
    ELSE LET init == Dedup(SubSeq(s, 1, Len(s) - 1))
             last == s[Len(s)]
         IN  IF last \in Range(init) THEN init ELSE Append(init, last)

RECURSIVE CodesOfTypes(_, _)
CodesOfTypes(catalog, types) ==
    IF types = <<>> THEN <<>>
    ELSE TypeCodes(catalog, Head(types)) \o CodesOfTypes(catalog, Tail(types))

finalCodeFilter_AllCodesWhenEmpty(catalog, selected) ==
    IF Len(selected) = 0 THEN [i \in 1..Len(catalog) |-> catalog[i].code]
    ELSE Dedup(CodesOfTypes(catalog, selected))

\* computed finalCodeFilter
finalCodeFilter(catalog, selected) ==
    IF Len(selected) = 0 THEN <<>> ELSE Dedup(CodesOfTypes(catalog, selected))

\* the URLSearchParams fetchIncidents builds; a date of 0 is the empty string
\* and leaves its parameter out, as an empty list leaves its parameter out.
\* filters.limit is a number, or '' (here 0) when the input is empty
FetchParams(f, catalog, visible) ==
    [start_date   |-> f.startDate,
     end_date     |-> f.endDate,
     code         |-> Join(finalCodeFilter(catalog, f.selectedIncidentTypes)),
     grid         |-> <<>>,
     neighborhood |-> Join(finalNeighborhoodFilter(f.selectedNeighborhoodIds, visible)),
     limit        |-> String(IF f.limit # 0 THEN f.limit ELSE ClientLimit)]

\* a GET /incidents request in flight.  cause names the caller of
\* fetchIncidents; visible is visibleNeighborhoodIds when the request was
\* built; superseded tells that a request issued later has been answered and
\* applied; case_number is the argument of the deleteIncident that awaits
\* the fetch, '' when another caller does
Request(cause, f, catalog, visible) ==
    [cause |-> cause, params |-> FetchParams(f, catalog, visible),
     visible |-> Range(visible), superseded |-> FALSE, case_number |-> ""]

CodeType(catalog, code) ==
    IF \E i \in 1..Len(catalog) : catalog[i].code = code
    THEN (CHOOSE c \in Range(catalog) : c.code = code).type
    ELSE ToString(code)

\* the fallback of the marker popups, `Neighborhood ${id}`, used for the rows
NeighborhoodName_PopupFallback(catalog, id) ==
    IF \E i \in 1..Len(catalog) : catalog[i].id = id
    THEN (CHOOSE n \in Range(catalog) : n.id = id).name
    ELSE "Neighborhood " \o ToString(id)

NeighborhoodName(catalog, id) ==
    IF \E i \in 1..Len(catalog) : catalog[i].id = id
    THEN (CHOOSE n \in Range(catalog) : n.id = id).name
    ELSE ToString(id)

\* rows.map(...) of fetchIncidents (the category, a keyword match on free
\* text, is left out of the row)
Project(rows, codeCatalog, neighborhoodCatalog) ==
    [i \in 1..Len(rows) |->
        [case_number |-> rows[i].case_number, date |-> rows[i].date,
         time |-> rows[i].time, code |-> rows[i].code, incident |-> rows[i].incident,
         police_grid |-> rows[i].police_grid,
         neighborhood_number |-> rows[i].neighborhood_number, block |-> rows[i].block,
         incident_type |-> CodeType(codeCatalog, rows[i].code),
         neighborhood_name |-> NeighborhoodName(neighborhoodCatalog, rows[i].neighborhood_number)]]

\* a tally that takes every row for every marker
CountsOf_EveryRow(rows) ==
    [id \in NeighborhoodMarkers |-> Len(rows)]

\* the tally of fetchIncidents, as each marker's popup shows it
CountsOf(rows) ==
    [id \in NeighborhoodMarkers |->
        Cardinality({i \in 1..Len(rows) : rows[i].neighborhood_number = id})]

(***************************************************************************)
(* Client actions.  A handler runs to its next await in one step.          *)
(***************************************************************************)
Without(s, i) == SubSeq(s, 1, i - 1) \o SubSeq(s, i + 1, Len(s))

\* the requests issued before request i, marked as overtaken by it
Overtaken(s, i) ==
    [j \in 1..Len(s) |-> IF j < i THEN [s[j] EXCEPT !.superseded = TRUE] ELSE s[j]]

Pending == Len(inflight) + moveHandlers.user + moveHandlers.locate + Cardinality(locates)

\* the text of the map's center: `${lat.toFixed(5)}, ${lng.toFixed(5)}`
Coordinates == "coordinates"

\* what the location box shows for the center: the address if there is one
LocationText(centerAddress) == IF centerAddress # "" THEN centerAddress ELSE Coordinates

\* fetchIncidents, up to the await of apiFetch
fetchIncidents(cause, f, visible) ==
    /\ inflight' = Append(inflight, Request(cause, f, codes, visible))
    /\ ui' = [ui EXCEPT !.loadingIncidents = TRUE, !.errorMsg = "", !.successMsg = ""]

\* closeDialog and initializeCrimes, up to the await of /codes
closeDialog ==
    /\ initPc = "dialog"
    /\ initPc' = "codes"
    /\ initialized' = FALSE
    /\ ui' = [ui EXCEPT !.errorMsg = "", !.successMsg = ""]
    /\ UNCHANGED <<serverVars, formVars, address, incidentMarkers, suppressNextMoveReload, view, visibleNeighborhoodIds,
                   codes, neighborhoods, filters, incidents, counts, moveHandlers,
                   locates, geocodeCache, selectedIncidentMarker, inflight>>

\* initializeCrimes: /codes answers, up to the await of /neighborhoods
CodesLoaded ==
    /\ initPc = "codes"
    /\ codes' = CodesTable
    /\ initPc' = "neighborhoods"
    /\ ui' = [ui EXCEPT !.errorMsg = ""]
    /\ UNCHANGED <<serverVars, formVars, address, incidentMarkers, initialized, suppressNextMoveReload, view,
                   visibleNeighborhoodIds, neighborhoods, filters, incidents, counts,
                   moveHandlers, locates, geocodeCache, selectedIncidentMarker, inflight>>

\* initializeCrimes: /codes or /neighborhoods fails, the catch
CatalogFailed ==
    /\ initPc \in {"codes", "neighborhoods"}
    /\ initPc' = "failed"
    /\ ui' = [ui EXCEPT !.errorMsg = "API initialization failed"]
    /\ UNCHANGED <<serverVars, formVars, address, incidentMarkers, initialized, suppressNextMoveReload, view,
                   visibleNeighborhoodIds, codes, neighborhoods, filters, incidents,
                   counts, moveHandlers, locates, geocodeCache, selectedIncidentMarker,
                   inflight>>

\* initializeCrimes: /neighborhoods answers, up to the await of fetchIncidents
NeighborhoodsLoaded ==
    /\ initPc = "neighborhoods"
    /\ Pending < MaxPending
    /\ neighborhoods' = NeighborhoodsTable
    /\ visibleNeighborhoodIds' = updateVisibleNeighborhoods(view)
    /\ inflight' = Append(inflight, Request("init", filters, codes, visibleNeighborhoodIds'))
    /\ ui' = [ui EXCEPT !.locationQuery = LocationText(address), !.loadingIncidents = TRUE,
                        !.errorMsg = "", !.successMsg = ""]
    /\ initPc' = "fetch"
    /\ UNCHANGED <<serverVars, formVars, address, incidentMarkers, initialized, suppressNextMoveReload, view, codes,
                   filters, incidents, counts, moveHandlers, locates, geocodeCache,
                   selectedIncidentMarker>>

\* what follows the await of fetchIncidents in its caller: initializeCrimes
\* sets initialized; deleteIncident takes the selected marker off the map if
\* it is the marker of the case it deleted
AfterFetch(r) ==
    /\ IF r.cause = "init"
       THEN initialized' = TRUE /\ initPc' = "done"
       ELSE UNCHANGED <<initialized, initPc>>
    /\ IF r.cause = "delete" /\ selectedIncidentMarker = r.case_number
       THEN /\ incidentMarkers' = incidentMarkers (-) SetToBag({selectedIncidentMarker})
            /\ selectedIncidentMarker' = ""
       ELSE UNCHANGED <<selectedIncidentMarker, incidentMarkers>>

\* fetchIncidents: the response of request i arrives and is put on display
IncidentsResponse(i) ==
    /\ i \in 1..Len(inflight)
    /\ LET rows == GetIncidents(store, inflight[i].params)
       IN  /\ incidents' = Project(rows, codes, neighborhoods)
           /\ counts' = CountsOf(incidents')
    /\ ui' = [ui EXCEPT !.loadingIncidents = FALSE]
    /\ inflight' = Without(Overtaken(inflight, i), i)
    /\ AfterFetch(inflight[i])
    /\ UNCHANGED <<serverVars, formVars, address, suppressNextMoveReload, view,
                   visibleNeighborhoodIds, codes, neighborhoods, filters, moveHandlers,
                   locates, geocodeCache>>

\* fetchIncidents: request i fails, the catch and the finally
IncidentsFailure(i) ==
    /\ i \in 1..Len(inflight)
    /\ ui' = [ui EXCEPT !.errorMsg = "Incident load failed", !.loadingIncidents = FALSE]
    /\ inflight' = Without(inflight, i)
    /\ AfterFetch(inflight[i])
    /\ UNCHANGED <<serverVars, formVars, address, suppressNextMoveReload, view,
                   visibleNeighborhoodIds, codes, neighborhoods, filters, incidents, counts,
                   moveHandlers, locates, geocodeCache>>

\* a watcher that does not look at initialized
watchFilters_Unguarded(f) ==
    Pending < MaxPending /\ fetchIncidents("watch", f, visibleNeighborhoodIds)

\* the watcher on filters: a re-fetch once initialized
watchFilters(f) ==
    IF initialized
    THEN Pending < MaxPending /\ fetchIncidents("watch", f, visibleNeighborhoodIds)
    ELSE UNCHANGED <<inflight, ui>>

\* a neighborhood checkbox is clicked (v-model on an array: a checked value
\* is appended, an unchecked one removed)
ToggleNeighborhood(id) ==
    /\ id \in {neighborhoods[i].id : i \in 1..Len(neighborhoods)}
    /\ LET sel == filters.selectedNeighborhoodIds
       IN  filters' = [filters EXCEPT !.selectedNeighborhoodIds =
               IF id \in Range(sel) THEN SelectSeq(sel, LAMBDA x : x # id)
               ELSE Append(sel, id)]
    /\ watchFilters(filters')
    /\ UNCHANGED <<serverVars, formVars, address, incidentMarkers, initPc, initialized, suppressNextMoveReload, view,
                   visibleNeighborhoodIds, codes, neighborhoods, incidents, counts,
                   moveHandlers, locates, geocodeCache, selectedIncidentMarker>>

selectAllNeighborhoods ==
    /\ filters' = [filters EXCEPT !.selectedNeighborhoodIds =
                       [i \in 1..Len(neighborhoods) |-> neighborhoods[i].id]]
    /\ watchFilters(filters')
    /\ UNCHANGED <<serverVars, formVars, address, incidentMarkers, initPc, initialized, suppressNextMoveReload, view,
                   visibleNeighborhoodIds, codes, neighborhoods, incidents, counts,
                   moveHandlers, locates, geocodeCache, selectedIncidentMarker>>

clearNeighborhoods ==
    /\ filters' = [filters EXCEPT !.selectedNeighborhoodIds = <<>>]
    /\ watchFilters(filters')
    /\ UNCHANGED <<serverVars, formVars, address, incidentMarkers, initPc, initialized, suppressNextMoveReload, view,
                   visibleNeighborhoodIds, codes, neighborhoods, incidents, counts,
                   moveHandlers, locates, geocodeCache, selectedIncidentMarker>>

\* Leaflet fires moveend with the map at v: the handler up to the await of
\* nominatimReverse
Moveend(v, cause) ==
    /\ view' = v
    /\ visibleNeighborhoodIds' = updateVisibleNeighborhoods(v)
    /\ moveHandlers' = [moveHandlers EXCEPT ![cause] = @ + 1]

\* the user pans or zooms the map to v
UserMove(v) ==
    /\ v \in Views \ {view}
    /\ Pending < MaxPending
    /\ Moveend(v, "user")
    /\ UNCHANGED <<serverVars, formVars, address, incidentMarkers, initPc, initialized, suppressNextMoveReload, codes,
                   neighborhoods, filters, incidents, counts, ui, locates,
                   geocodeCache, selectedIncidentMarker, inflight>>

\* nominatimReverse: it answers with a place, answers with none, or throws
ReverseResults == {"place", "nothing", "error"}

\* the moveend handler: map.center.address after the try and its catch
ReverseAddress(result) ==
    CASE result = "place" -> "address"
      [] result = "nothing" -> ""
      [] OTHER -> address

\* the moveend handler: ui.locationQuery after the try and its catch
ReverseQuery(result) ==
    IF result = "error" THEN Coordinates ELSE LocationText(ReverseAddress(result))

\* the handler with a catch that leaves it: no re-fetch after a failure
MoveendResume_CatchReturns(cause, result) ==
    /\ moveHandlers[cause] > 0
    /\ moveHandlers' = [moveHandlers EXCEPT ![cause] = @ - 1]
    /\ address' = ReverseAddress(result)
    /\ IF initialized /\ result # "error" /\ suppressNextMoveReload
       THEN /\ suppressNextMoveReload' = FALSE
            /\ ui' = [ui EXCEPT !.locationQuery = ReverseQuery(result)]
            /\ UNCHANGED inflight
       ELSE IF initialized /\ result # "error"
       THEN /\ inflight' = Append(inflight,
                   Request(IF cause = "locate" THEN "locateMove" ELSE "move",
                           filters, codes, visibleNeighborhoodIds))
            /\ ui' = [ui EXCEPT !.locationQuery = ReverseQuery(result),
                                !.loadingIncidents = TRUE, !.errorMsg = "",
                                !.successMsg = ""]
            /\ UNCHANGED suppressNextMoveReload
       ELSE /\ ui' = [ui EXCEPT !.locationQuery = ReverseQuery(result)]
            /\ UNCHANGED <<suppressNextMoveReload, inflight>>
    /\ UNCHANGED <<serverVars, formVars, incidentMarkers, initPc, initialized, view, visibleNeighborhoodIds,
                   codes, neighborhoods, filters, incidents, counts, locates,
                   geocodeCache, selectedIncidentMarker>>

\* the moveend handler after nominatimReverse, to its end
MoveendResume(cause, result) ==
    /\ moveHandlers[cause] > 0
    /\ moveHandlers' = [moveHandlers EXCEPT ![cause] = @ - 1]
    /\ address' = ReverseAddress(result)
    /\ IF initialized /\ suppressNextMoveReload
       THEN /\ suppressNextMoveReload' = FALSE
            /\ ui' = [ui EXCEPT !.locationQuery = ReverseQuery(result)]
            /\ UNCHANGED inflight
       ELSE IF initialized
       THEN /\ inflight' = Append(inflight,
                   Request(IF cause = "locate" THEN "locateMove" ELSE "move",
                           filters, codes, visibleNeighborhoodIds))
            /\ ui' = [ui EXCEPT !.locationQuery = ReverseQuery(result),
                                !.loadingIncidents = TRUE, !.errorMsg = "",
                                !.successMsg = ""]
            /\ UNCHANGED suppressNextMoveReload
       ELSE /\ ui' = [ui EXCEPT !.locationQuery = ReverseQuery(result)]
            /\ UNCHANGED <<suppressNextMoveReload, inflight>>
    /\ UNCHANGED <<serverVars, formVars, incidentMarkers, initPc, initialized, view, visibleNeighborhoodIds,
                   codes, neighborhoods, filters, incidents, counts, locates,
                   geocodeCache, selectedIncidentMarker>>

\* normalizeBlock: '' for an empty block, the block with the city after it
\* otherwise (the blocks here have no house number to repair)
normalizeBlock(block) == IF block = "" THEN "" ELSE block \o ", Saint Paul, MN"

\* nominatimSearch: where the geocoder finds an address
GeoLocation(q) == IF q = "b1, Saint Paul, MN" THEN 1 ELSE 2

\* the marker swap without the removeLayer of the marker selected before
LocateShow_NoRemoveLayer(l) ==
    /\ incidentMarkers' = incidentMarkers (+) SetToBag({l.case_number})
    /\ selectedIncidentMarker' = l.case_number
    /\ suppressNextMoveReload' = TRUE
    /\ Moveend(<<GeoLocation(normalizeBlock(l.block)), GeoLocation(normalizeBlock(l.block))>>,
               "locate")

\* locateIncident from the marker swap on: the marker of the row replaces the
\* selected one, the flag is set, and setView moves the map, zoomed in
LocateShow(l) ==
    /\ incidentMarkers' =
           (IF selectedIncidentMarker # ""
            THEN incidentMarkers (-) SetToBag({selectedIncidentMarker})
            ELSE incidentMarkers) (+) SetToBag({l.case_number})
    /\ selectedIncidentMarker' = l.case_number
    /\ suppressNextMoveReload' = TRUE
    /\ Moveend(<<GeoLocation(normalizeBlock(l.block)), GeoLocation(normalizeBlock(l.block))>>,
               "locate")

\* locateIncident(row) for row i on display, up to the await of
\* nominatimSearch, or to its end when the address is cached
locateIncident(i) ==
    /\ i \in 1..Len(incidents)
    /\ LET l == [case_number |-> incidents[i].case_number, block |-> incidents[i].block]
           q == normalizeBlock(l.block)
       IN  IF q = ""
           THEN /\ ui' = [ui EXCEPT !.errorMsg = "No block/address", !.successMsg = ""]
                /\ UNCHANGED <<locates, selectedIncidentMarker, incidentMarkers,
                               suppressNextMoveReload, view, visibleNeighborhoodIds,
                               moveHandlers>>
           ELSE /\ ui' = [ui EXCEPT !.errorMsg = "", !.successMsg = ""]
                /\ Pending < MaxPending
                /\ IF q \in geocodeCache
                   THEN LocateShow(l) /\ UNCHANGED locates
                   ELSE /\ l \notin locates
                        /\ locates' = locates \cup {l}
                        /\ UNCHANGED <<selectedIncidentMarker, incidentMarkers,
                                       suppressNextMoveReload, view,
                                       visibleNeighborhoodIds, moveHandlers>>
    /\ UNCHANGED <<serverVars, formVars, address, initPc, initialized, codes, neighborhoods,
                   filters, incidents, counts, geocodeCache, inflight>>

\* locateIncident: nominatimSearch answers with a place
LocateFound(l) ==
    /\ l \in locates
    /\ locates' = locates \ {l}
    /\ geocodeCache' = geocodeCache \cup {normalizeBlock(l.block)}
    /\ LocateShow(l)
    /\ UNCHANGED <<serverVars, formVars, address, initPc, initialized, codes, neighborhoods,
                   filters, incidents, counts, ui, inflight>>

\* locateIncident: nominatimSearch answers with nothing, or fails
LocateNotFound(l) ==
    /\ l \in locates
    /\ locates' = locates \ {l}
    /\ ui' = [ui EXCEPT !.errorMsg = "Geocoding failed"]
    /\ UNCHANGED <<serverVars, formVars, address, incidentMarkers, initPc, initialized, suppressNextMoveReload, view,
                   visibleNeighborhoodIds, codes, neighborhoods, filters, incidents,
                   counts, moveHandlers, geocodeCache, selectedIncidentMarker, inflight>>

(***************************************************************************)
(* The New Incident Upload form (the Vue component).  A text input holds a *)
(* string; the date and time inputs hold a day and a second number, 0 when *)
(* empty; the number input and the two selects hold <<>> when nothing is   *)
(* entered and <<n>> for the number n.                                     *)
(***************************************************************************)
\* uploads and other requests the service has on hand at once
MaxUploads == 2

\* reactive newIncident as the component creates it
EmptyForm ==
    [case_number |-> "", date |-> 0, time |-> 0, code |-> <<>>, incident |-> "",
     police_grid |-> <<>>, neighborhood_number |-> <<>>, block |-> ""]

FilledForm ==
    [case_number |-> "B", date |-> 1, time |-> 1, code |-> <<1>>, incident |-> "x",
     police_grid |-> <<1>>, neighborhood_number |-> <<1>>, block |-> "b"]

\* what the user leaves in the form: all fields filled, one field empty (one
\* form for each field), a block of white space, a police grid of 0
Forms ==
    {FilledForm,
     [FilledForm EXCEPT !.case_number = ""], [FilledForm EXCEPT !.date = 0],
     [FilledForm EXCEPT !.time = 0], [FilledForm EXCEPT !.code = <<>>],
     [FilledForm EXCEPT !.incident = ""], [FilledForm EXCEPT !.police_grid = <<>>],
     [FilledForm EXCEPT !.neighborhood_number = <<>>], [FilledForm EXCEPT !.block = ""],
     [FilledForm EXCEPT !.block = " "], [FilledForm EXCEPT !.police_grid = <<0>>]}

\* String.prototype.trim, on the strings the forms hold
trim(s) == IF s = " " THEN "" ELSE s

\* Number(v) of a number input or select: 0 for ''
Number(v) == IF v = <<>> THEN 0 ELSE v[1]

\* submitNewIncident: the fields whose String(v ?? '').trim() is ''
MissingFormFields(form) ==
    {f \in {"case_number", "incident", "block"} : trim(form[f]) = ""}
        \cup {f \in {"date", "time"} : form[f] = 0}
        \cup {f \in {"code", "police_grid", "neighborhood_number"} : form[f] = <<>>}

\* submitNewIncident: the body JSON.stringify builds from the form
SubmitBody(form) ==
    [case_number |-> trim(form.case_number), date |-> form.date, time |-> form.time,
     code |-> Number(form.code), incident |-> trim(form.incident),
     police_grid |-> Number(form.police_grid),
     neighborhood_number |-> Number(form.neighborhood_number),
     block |-> trim(form.block)]

\* the requests of this client the service has not answered to it yet
Uploads == {h \in BagToSet(handlers) : h.client}

\* the user fills the form in: the selects offer the catalogs' entries
EditNewIncident(form) ==
    /\ form # newIncident
    /\ form.code # <<>> => \E i \in 1..Len(codes) : codes[i].code = form.code[1]
    /\ form.neighborhood_number # <<>> =>
           \E i \in 1..Len(neighborhoods) : neighborhoods[i].id = form.neighborhood_number[1]
    /\ newIncident' = form
    /\ UNCHANGED <<serverVars, address, incidentMarkers, newIncidentErr, initPc, initialized,
                   suppressNextMoveReload, view, visibleNeighborhoodIds, codes,
                   neighborhoods, filters, incidents, counts, ui, moveHandlers, locates,
                   geocodeCache, selectedIncidentMarker, inflight>>

\* submitNewIncident, up to the await of apiFetch; the button is disabled
\* until the client is initialized
submitNewIncident ==
    /\ initialized
    /\ IF MissingFormFields(newIncident) # {}
       THEN /\ newIncidentErr' = "Missing"
            /\ ui' = [ui EXCEPT !.errorMsg = "", !.successMsg = ""]
            /\ UNCHANGED handlers
       ELSE /\ BagCardinality(handlers) < MaxUploads
            /\ newIncidentErr' = ""
            /\ ui' = [ui EXCEPT !.errorMsg = "", !.successMsg = ""]
            /\ handlers' = handlers (+) SetToBag({
                   [PutReceived(SubmitBody(newIncident)) EXCEPT !.client = TRUE]})
    /\ UNCHANGED <<store, address, incidentMarkers, newIncident, initPc, initialized, suppressNextMoveReload,
                   view, visibleNeighborhoodIds, codes, neighborhoods, filters,
                   incidents, counts, moveHandlers, locates, geocodeCache,
                   selectedIncidentMarker, inflight>>

\* submitNewIncident after apiFetch: on 200 the form is cleared in part and
\* fetchIncidents is called, which clears the message set just before the
\* call; otherwise the catch
UploadAnswered(h) ==
    /\ h \in Uploads
    /\ h.kind = "put"
    /\ h.pc = "done"
    /\ handlers' = handlers (-) SetToBag({h})
    /\ IF h.status = 200
       THEN /\ Pending < MaxPending
            /\ newIncident' = [newIncident EXCEPT !.case_number = "", !.incident = "",
                                                  !.block = ""]
            /\ fetchIncidents("upload", filters, visibleNeighborhoodIds)
       ELSE /\ ui' = [ui EXCEPT !.errorMsg = "Upload failed"]
            /\ UNCHANGED <<newIncident, inflight>>
    /\ UNCHANGED <<store, address, incidentMarkers, newIncidentErr, initPc, initialized, suppressNextMoveReload,
                   view, visibleNeighborhoodIds, codes, neighborhoods, filters,
                   incidents, counts, moveHandlers, locates, geocodeCache,
                   selectedIncidentMarker>>

\* deletions the client has sent and not seen answered
MaxDeletes == 1

\* deleteIncident(case_number), up to the await of apiFetch: the Delete
\* button of a row on display, or of the popup of the selected marker
deleteIncident(k) ==
    /\ k # ""
    /\ k \in {incidents[i].case_number : i \in 1..Len(incidents)} \cup {selectedIncidentMarker}
    /\ BagCardinality(handlers) < MaxDeletes
    /\ ui' = [ui EXCEPT !.errorMsg = "", !.successMsg = ""]
    /\ handlers' = handlers (+) SetToBag({
           [DeleteReceived([case_number |-> k]) EXCEPT !.client = TRUE]})
    /\ UNCHANGED <<store, formVars, address, incidentMarkers, initPc, initialized,
                   suppressNextMoveReload, view, visibleNeighborhoodIds, codes,
                   neighborhoods, filters, incidents, counts, moveHandlers, locates,
                   geocodeCache, selectedIncidentMarker, inflight>>

\* deleteIncident after apiFetch: on 200 the message is set and
\* fetchIncidents is called, which clears it, up to its await; otherwise the
\* catch
DeleteAnswered(h) ==
    /\ h \in Uploads
    /\ h.kind = "delete"
    /\ h.pc = "done"
    /\ handlers' = handlers (-) SetToBag({h})
    /\ IF h.status = 200
       THEN /\ Pending < MaxPending
            /\ inflight' = Append(inflight,
                   [Request("delete", filters, codes, visibleNeighborhoodIds)
                       EXCEPT !.case_number = h.body.case_number])
            /\ LET said == [ui EXCEPT !.successMsg = "Deleted case"]
               IN  ui' = [said EXCEPT !.loadingIncidents = TRUE, !.errorMsg = "",
                                      !.successMsg = ""]
       ELSE /\ ui' = [ui EXCEPT !.errorMsg = "Delete failed"]
            /\ UNCHANGED inflight
    /\ UNCHANGED <<store, formVars, address, incidentMarkers, initPc, initialized,
                   suppressNextMoveReload, view, visibleNeighborhoodIds, codes,
                   neighborhoods, filters, incidents, counts, moveHandlers, locates,
                   geocodeCache, selectedIncidentMarker>>

(***************************************************************************)
(* Specifications                                                          *)
(***************************************************************************)
ClientIdle ==
    /\ initPc = "dialog"
    /\ initialized = FALSE
    /\ suppressNextMoveReload = FALSE
    /\ view = InitialView
    /\ address = ""
    /\ visibleNeighborhoodIds = <<>>
    /\ codes = <<>>
    /\ neighborhoods = <<>>
    /\ filters = [selectedIncidentTypes |-> <<>>, selectedNeighborhoodIds |-> <<>>,
                  startDate |-> 0, endDate |-> 0, limit |-> ClientLimit]
    /\ incidents = <<>>
    /\ counts = [id \in NeighborhoodMarkers |-> -1]
    /\ ui = [locationQuery |-> "", loadingIncidents |-> FALSE, errorMsg |-> "",
             successMsg |-> ""]
    /\ moveHandlers = [user |-> 0, locate |-> 0]
    /\ locates = {}
    /\ geocodeCache = {}
    /\ selectedIncidentMarker = ""
    /\ incidentMarkers = EmptyBag
    /\ inflight = <<>>
    /\ newIncident = EmptyForm
    /\ newIncidentErr = ""

InitServer ==
    /\ store = ServerInitialStore
    /\ handlers = EmptyBag
    /\ ClientIdle

NextServer ==
    \/ \E b \in PutBodies : PutReceive(b)
    \/ \E h \in BagToSet(handlers) : PutSelect(h)
    \/ \E h \in BagToSet(handlers) : PutRun(h)
    \/ \E b \in DeleteBodies : DeleteReceive(b)
    \/ \E h \in BagToSet(handlers) : DeleteSelect(h)
    \/ \E h \in BagToSet(handlers) : DeleteRun(h)

SpecServer == InitServer /\ [][NextServer]_vars

InitClient ==
    /\ store = ClientStore
    /\ handlers = EmptyBag
    /\ ClientIdle

NextClient ==
    \/ closeDialog
    \/ CodesLoaded
    \/ CatalogFailed
    \/ NeighborhoodsLoaded
    \/ \E i \in 1..Len(inflight) : IncidentsResponse(i)
    \/ \E i \in 1..Len(inflight) : IncidentsFailure(i)
    \/ \E id \in NeighborhoodMarkers : ToggleNeighborhood(id)
    \/ selectAllNeighborhoods
    \/ clearNeighborhoods
    \/ \E v \in Views : UserMove(v)
    \/ MoveendResume("user", "error")

SpecClient == InitClient /\ [][NextClient]_vars

NextLocate ==
    \/ closeDialog
    \/ CodesLoaded
    \/ CatalogFailed
    \/ NeighborhoodsLoaded
    \/ \E i \in 1..Len(inflight) : IncidentsResponse(i)
    \/ \E i \in 1..Len(inflight) : IncidentsFailure(i)
    \/ \E v \in Views : UserMove(v)
    \/ \E cause \in {"user", "locate"}, result \in ReverseResults : MoveendResume(cause, result)
    \/ \E i \in 1..Len(incidents) : locateIncident(i)
    \/ \E l \in locates : LocateFound(l)
    \/ \E l \in locates : LocateNotFound(l)

SpecLocate == InitClient /\ [][NextLocate]_vars

\* the client of a user who locates and deletes the incidents on display,
\* and the service that carries the deletions out
NextDelete ==
    \/ closeDialog
    \/ CodesLoaded
    \/ NeighborhoodsLoaded
    \/ \E i \in 1..Len(inflight) : IncidentsResponse(i)
    \/ \E i \in 1..Len(inflight) : IncidentsFailure(i)
    \/ \E i \in 1..Len(incidents) : locateIncident(i)
    \/ \E l \in locates : LocateFound(l)
    \/ MoveendResume("locate", "error")
    \/ \E k \in CaseNumbers : deleteIncident(k)
    \/ \E h \in BagToSet(handlers) : DeleteSelect(h)
    \/ \E h \in BagToSet(handlers) : DeleteRun(h)
    \/ \E h \in Uploads : DeleteAnswered(h)

SpecDelete == InitClient /\ [][NextDelete]_vars

\* queries the service has on hand at once
MaxQueries == 1

\* three incidents: two of one day, two of one code, two of one grid, two of
\* one neighborhood
QueryRows ==
    {[case_number |-> "A", date_time |-> <<1, 2>>, code |-> 1, incident |-> "x",
      police_grid |-> 1, neighborhood_number |-> 1, block |-> "b"],
     [case_number |-> "B", date_time |-> <<2, 1>>, code |-> 2, incident |-> "x",
      police_grid |-> 1, neighborhood_number |-> 2, block |-> "b"],
     [case_number |-> "C", date_time |-> <<2, 2>>, code |-> 1, incident |-> "x",
      police_grid |-> 2, neighborhood_number |-> 2, block |-> "b"]}

\* the tables that hold the three incidents, in every rowid order
QueryTables ==
    {t \in [1..3 -> QueryRows] : \A i, j \in 1..3 : i # j => t[i] # t[j]}

\* the query strings sent: without date bounds, with an end date, with both
\* bounds on one day; without codes, with two codes, with a code and an item
\* that is no number, with such an item alone; with or without a grid, a
\* neighborhood and a limit
Queries ==
    {[start_date |-> d[1], end_date |-> d[2], code |-> c, grid |-> g,
      neighborhood |-> n, limit |-> l] :
        d \in {<<0, 0>>, <<0, 1>>, <<2, 2>>},
        c \in {<<>>, <<String(1), String(2)>>, <<String(2), <<"x">>>>, <<<<"x">>>>},
        g \in {<<>>, <<String(2)>>},
        n \in {<<>>, <<String(2)>>},
        l \in {<<>>, String(1), String(2)}}

InitQuery ==
    /\ store \in QueryTables
    /\ handlers = EmptyBag
    /\ ClientIdle

\* the service with users who fetch
NextQuery ==
    \/ \E q \in Queries : BagCardinality(handlers) < MaxQueries /\ GetReceive(q)
    \/ \E h \in BagToSet(handlers) : GetSelect(h)

SpecQuery == InitQuery /\ [][NextQuery]_vars

\* catalog requests and uploads the service has on hand at once
MaxCatalogRequests == 3

\* the Codes and Neighborhoods tables, their rows in the order of insertion;
\* no statement of the server writes them
CodesRows ==
    <<[code |-> 3, incident_type |-> "Assault"], [code |-> 1, incident_type |-> "Theft"],
      [code |-> 2, incident_type |-> "Theft"]>>

NeighborhoodsRows ==
    <<[neighborhood_number |-> 2, neighborhood_name |-> "N2"],
      [neighborhood_number |-> 1, neighborhood_name |-> "N1"]>>

\* ORDER BY column ASC, on a column without duplicates
OrderAscending(rows, column) ==
    LET place(i) == 1 + Cardinality({j \in 1..Len(rows) : rows[j][column] < rows[i][column]})
    IN  [p \in 1..Len(rows) |-> rows[CHOOSE i \in 1..Len(rows) : place(i) = p]]

\* the SELECT without its ORDER BY: the rows as the table holds them
ListCodes_Unordered(paramValue) ==
    LET wanted == parseIntList(paramValue)
        found  == SelectSeq(CodesRows, LAMBDA r : InClause(r.code, wanted))
    IN  [i \in 1..Len(found) |-> [code |-> found[i].code, type |-> found[i].incident_type]]

\* GET /codes: the rows of the answer to ?code=paramValue
ListCodes(paramValue) ==
    LET wanted == parseIntList(paramValue)
        found  == OrderAscending(
                      SelectSeq(CodesRows, LAMBDA r : InClause(r.code, wanted)), "code")
    IN  [i \in 1..Len(found) |-> [code |-> found[i].code, type |-> found[i].incident_type]]

\* GET /neighborhoods: the rows of the answer to ?id=paramValue
ListNeighborhoods(paramValue) ==
    LET wanted == parseIntList(paramValue)
        named  == [i \in 1..Len(NeighborhoodsRows) |->
                      [id |-> NeighborhoodsRows[i].neighborhood_number,
                       name |-> NeighborhoodsRows[i].neighborhood_name]]
    IN  OrderAscending(SelectSeq(named, LAMBDA r : InClause(r.id, wanted)), "id")

\* GET /codes or GET /neighborhoods arrives: up to the await of the SELECT
CatalogReceive(kind, paramValue) ==
    /\ BagCardinality(handlers) < MaxCatalogRequests
    /\ handlers' = handlers (+) SetToBag({Handler(kind, paramValue, "select", 0, "")})
    /\ UNCHANGED <<store, clientVars>>

\* GET /codes, the SELECT and the answer
CodesSelect(h) ==
    /\ h \in Running("codes", "select")
    /\ handlers' = Replace(handlers, h,
           [Answered(h, 200, "") EXCEPT !.rows = ListCodes(h.body)])
    /\ UNCHANGED <<store, clientVars>>

\* GET /neighborhoods, the SELECT and the answer
NeighborhoodsSelect(h) ==
    /\ h \in Running("neighborhoods", "select")
    /\ handlers' = Replace(handlers, h,
           [Answered(h, 200, "") EXCEPT !.rows = ListNeighborhoods(h.body)])
    /\ UNCHANGED <<store, clientVars>>

\* GET /codes or GET /neighborhoods, the SELECT fails: the catch
CatalogSelectFails(h) ==
    /\ h \in Running("codes", "select") \cup Running("neighborhoods", "select")
    /\ handlers' = Replace(handlers, h, Answered(h, 500, "Internal server error"))
    /\ UNCHANGED <<store, clientVars>>

\* the values of ?code= and ?id= users send: absent, one key, keys out of
\* order, a key twice, a key no row has, no number, a number among others
CatalogParams ==
    {<<>>, <<String(1)>>, <<String(3), String(1)>>, <<String(2), String(2)>>,
     <<String(9)>>, <<<<"x">>>>, <<<<"x">>, String(2)>>}

\* the service with users who read the catalogs while one uploads an incident
NextCatalog ==
    \/ \E v \in CatalogParams : CatalogReceive("codes", v)
    \/ \E v \in CatalogParams : CatalogReceive("neighborhoods", v)
    \/ \E h \in BagToSet(handlers) : CodesSelect(h)
    \/ \E h \in BagToSet(handlers) : NeighborhoodsSelect(h)
    \/ \E h \in BagToSet(handlers) : CatalogSelectFails(h)
    \/ BagCardinality(handlers) < MaxCatalogRequests /\ PutReceive(NewIncidentBody("B", 1, 1, "b"))
    \/ \E h \in BagToSet(handlers) : PutSelect(h)
    \/ \E h \in BagToSet(handlers) : PutRun(h)

SpecCatalog == InitServer /\ [][NextCatalog]_vars

\* the "Update crimes" button, enabled when the client is initialized and no
\* fetch is loading: fetchIncidents
UpdateCrimes ==
    /\ initialized
    /\ ~ui.loadingIncidents
    /\ fetchIncidents("button", filters, visibleNeighborhoodIds)
    /\ UNCHANGED <<serverVars, formVars, address, incidentMarkers, initPc, initialized, suppressNextMoveReload,
                   view, visibleNeighborhoodIds, codes, neighborhoods, filters, incidents,
                   counts, moveHandlers, locates, geocodeCache, selectedIncidentMarker>>

\* a catalog with a type of two codes and a type of one
FilterCatalog ==
    <<[code |-> 1, type |-> "Theft"], [code |-> 2, type |-> "Theft"],
      [code |-> 3, type |-> "Assault"]>>

\* incidents of a code of each type, and one of a code the catalog lacks
FilterTable ==
    <<[case_number |-> "A", date_time |-> <<1, 1>>, code |-> 1, incident |-> "x",
       police_grid |-> 1, neighborhood_number |-> 1, block |-> "b"],
      [case_number |-> "B", date_time |-> <<2, 1>>, code |-> 3, incident |-> "x",
       police_grid |-> 1, neighborhood_number |-> 2, block |-> "b"],
      [case_number |-> "C", date_time |-> <<2, 2>>, code |-> 4, incident |-> "x",
       police_grid |-> 1, neighborhood_number |-> 1, block |-> "b"]>>

\* what the user can have set in the Filters panel: the types are the
\* catalog's, in the order they were checked; the limit input holds a
\* number, 0 also standing for the empty input
FilterStates ==
    {[selectedIncidentTypes |-> t, selectedNeighborhoodIds |-> n, startDate |-> d,
      endDate |-> 0, limit |-> l] :
        t \in {<<>>, <<"Theft">>, <<"Assault">>, <<"Theft", "Assault">>,
               <<"Assault", "Theft">>},
        n \in {<<>>, <<1>>},
        d \in {0, 2},
        l \in {0 - 1, 0, 1, 2, ClientLimit}}

\* query strings other users send: the limit absent, no number, zero,
\* negative, a number, a number with something after it
LimitQueries ==
    {[NoParams EXCEPT !.limit = l] :
        l \in {<<>>, <<"a", "b", "c">>, String(0), String(0 - 1), String(2),
               <<"1", "x">>}}

\* a client that is initialized, whose fetches have failed so far, and whose
\* user has set the filters
InitFilters ==
    /\ store = FilterTable
    /\ handlers = EmptyBag
    /\ initPc = "done"
    /\ initialized = TRUE
    /\ suppressNextMoveReload = FALSE
    /\ view = InitialView
    /\ address = ""
    /\ visibleNeighborhoodIds = updateVisibleNeighborhoods(InitialView)
    /\ codes = FilterCatalog
    /\ neighborhoods = NeighborhoodsTable
    /\ filters \in FilterStates
    /\ incidents = <<>>
    /\ counts = [id \in NeighborhoodMarkers |-> -1]
    /\ ui = [locationQuery |-> Coordinates, loadingIncidents |-> FALSE,
             errorMsg |-> "Incident load failed", successMsg |-> ""]
    /\ moveHandlers = [user |-> 0, locate |-> 0]
    /\ locates = {}
    /\ geocodeCache = {}
    /\ selectedIncidentMarker = ""
    /\ incidentMarkers = EmptyBag
    /\ inflight = <<>>
    /\ newIncident = EmptyForm
    /\ newIncidentErr = ""

NextFilters ==
    \/ UpdateCrimes
    \/ \E i \in 1..Len(inflight) : IncidentsResponse(i)
    \/ \E q \in LimitQueries : BagCardinality(handlers) < MaxQueries /\ GetReceive(q)
    \/ \E h \in BagToSet(handlers) : GetSelect(h)

SpecFilters == InitFilters /\ [][NextFilters]_vars

\* the catalogs a client can have loaded: the whole table, a table that
\* lacks entries the incidents refer to, an empty table
CodeCatalogs == {FilterCatalog, <<[code |-> 1, type |-> "Theft"]>>, <<>>}

NeighborhoodCatalogs == {NeighborhoodsTable, <<[id |-> 1, name |-> "N1"]>>, <<>>}

\* an initialized client with one of the catalogs, whose user has set the
\* filters to entries the catalogs offer
InitProject ==
    /\ store = FilterTable
    /\ handlers = EmptyBag
    /\ initPc = "done"
    /\ initialized = TRUE
    /\ suppressNextMoveReload = FALSE
    /\ view = InitialView
    /\ address = ""
    /\ visibleNeighborhoodIds = updateVisibleNeighborhoods(InitialView)
    /\ codes \in CodeCatalogs
    /\ neighborhoods \in NeighborhoodCatalogs
    /\ filters \in {f \in FilterStates :
           /\ \A t \in Range(f.selectedIncidentTypes) :
                  \E i \in 1..Len(codes) : codes[i].type = t
           /\ \A n \in Range(f.selectedNeighborhoodIds) :
                  \E i \in 1..Len(neighborhoods) : neighborhoods[i].id = n}
    /\ incidents = <<>>
    /\ counts = [id \in NeighborhoodMarkers |-> -1]
    /\ ui = [locationQuery |-> Coordinates, loadingIncidents |-> FALSE,
             errorMsg |-> "Incident load failed", successMsg |-> ""]
    /\ moveHandlers = [user |-> 0, locate |-> 0]
    /\ locates = {}
    /\ geocodeCache = {}
    /\ selectedIncidentMarker = ""
    /\ incidentMarkers = EmptyBag
    /\ inflight = <<>>
    /\ newIncident = EmptyForm
    /\ newIncidentErr = ""

NextProject ==
    \/ UpdateCrimes
    \/ \E i \in 1..Len(inflight) : IncidentsResponse(i)
    \/ \E i \in 1..Len(inflight) : IncidentsFailure(i)

SpecProject == InitProject /\ [][NextProject]_vars

\* the record created and deleted again
RoundTripBody == [NewIncidentBody("B", 1, 2, "b") EXCEPT !.date = 2, !.time = 3]

\* the queries sent meanwhile: no parameters; parameters the record
\* satisfies; a start date after the record's date; a limit of one row
RoundTripQueries ==
    {NoParams,
     [NoParams EXCEPT !.start_date = 2, !.end_date = 2, !.code = <<String(1)>>,
                      !.neighborhood = <<String(2), String(3)>>],
     [NoParams EXCEPT !.start_date = 3],
     [NoParams EXCEPT !.limit = String(1)]}

\* the service with users who create the record, delete it, and fetch
NextRoundTrip ==
    \/ PutReceive(RoundTripBody)
    \/ \E h \in BagToSet(handlers) : PutSelect(h)
    \/ \E h \in BagToSet(handlers) : PutRun(h)
    \/ DeleteReceive([case_number |-> RoundTripBody.case_number])
    \/ \E h \in BagToSet(handlers) : DeleteSelect(h)
    \/ \E h \in BagToSet(handlers) : DeleteRun(h)
    \/ \E q \in RoundTripQueries : GetReceive(q)
    \/ \E h \in BagToSet(handlers) : GetSelect(h)

SpecRoundTrip == InitServer /\ [][NextRoundTrip]_vars

\* the client of a user who starts it and uploads incidents, and the service
\* with other users who send it incomplete requests
InitSubmit ==
    /\ store = ServerInitialStore
    /\ handlers = EmptyBag
    /\ ClientIdle

NextSubmit ==
    \/ closeDialog
    \/ CodesLoaded
    \/ NeighborhoodsLoaded
    \/ \E i \in 1..Len(inflight) : IncidentsResponse(i)
    \/ \E form \in Forms : EditNewIncident(form)
    \/ submitNewIncident
    \/ \E h \in Uploads : UploadAnswered(h)
    \/ \E b \in IncompleteBodies : BagCardinality(handlers) < MaxUploads /\ PutReceive(b)
    \/ BagCardinality(handlers) < MaxUploads /\ DeleteReceive([case_number |-> ""])
    \/ \E h \in BagToSet(handlers) : PutSelect(h)
    \/ \E h \in BagToSet(handlers) : PutRun(h)

SpecSubmit == InitSubmit /\ [][NextSubmit]_vars

(***************************************************************************)
(* Claims                                                                  *)
(***************************************************************************)
EffectiveNow ==
    finalNeighborhoodFilter(filters.selectedNeighborhoodIds, visibleNeighborhoodIds)

\* this step is fetchIncidents putting the response of request i on display
Applied(i) ==
    /\ i \in 1..Len(inflight)
    /\ inflight' = Without(Overtaken(inflight, i), i)
    /\ incidents' = Project(GetIncidents(store, inflight[i].params), codes, neighborhoods)
    /\ ui'.errorMsg = ui.errorMsg

\* C1: in every reachable client state the effective neighborhood filter is a
\* subset of visibleNeighborhoodIds, and so is the neighborhood list of every
\* request in flight of the visible set it was built from.
C1_EffectiveFilterWithinVisible ==
    /\ Range(EffectiveNow) \subseteq Range(visibleNeighborhoodIds)
    /\ \A i \in 1..Len(inflight) :
           Range(parseIntList(inflight[i].params.neighborhood)) \subseteq inflight[i].visible

\* a manual selection that names a neighborhood out of view, with a request
\* built from it in flight
C1_Witness ==
    /\ visibleNeighborhoodIds # <<>>
    /\ \E id \in Range(filters.selectedNeighborhoodIds) : id \notin Range(visibleNeighborhoodIds)
    /\ \E i \in 1..Len(inflight) :
           /\ inflight[i].cause = "watch"
           /\ parseIntList(inflight[i].params.neighborhood) = EffectiveNow

\* C2: every incident row the client puts on display has its
\* neighborhood_number in the visibleNeighborhoodIds the request was built
\* from, for every manual selection and every visible set.
C2_ResultsWithinViewport ==
    [][\A i \in 1..Len(inflight) :
           Applied(i) =>
               \A j \in 1..Len(incidents') :
                   incidents'[j].neighborhood_number \in inflight[i].visible]_vars

\* C3: the effective neighborhood filter is selection \cap visible for a
\* non-empty manual selection, and exactly visibleNeighborhoodIds for an empty
\* one.
C3_EffectiveFilterValue ==
    LET sel == filters.selectedNeighborhoodIds
        vis == visibleNeighborhoodIds
    IN  /\ sel # <<>> => Range(EffectiveNow) = Range(sel) \cap Range(vis)
        /\ sel = <<>> => EffectiveNow = vis

\* the selection {1, 2} with only 1 in view gives <<1>>
C3_Witness ==
    /\ Range(filters.selectedNeighborhoodIds) = {1, 2}
    /\ visibleNeighborhoodIds = <<1>>
    /\ EffectiveNow = <<1>>

\* C4: once the response of a request has been put on display, the response
\* of a request issued before it does not overwrite the incidents and counts
\* on display.
C4_NoStaleResponseApplied ==
    [][\A i \in 1..Len(inflight) :
           (Applied(i) /\ inflight[i].superseded) =>
               (incidents' = incidents /\ counts' = counts)]_vars

\* C5: the moveend handler of a recenter made by locateIncident calls no
\* fetchIncidents, so no request of its making is ever in flight to change
\* the incidents and counts on display.
C5_LocateRecenterNoRefetch ==
    \A i \in 1..Len(inflight) : inflight[i].cause # "locateMove"

\* C6: whenever fetchIncidents builds a request, visibleNeighborhoodIds has
\* already been recomputed from the region the map shows: the visible set the
\* request is built from is the set of markers within the current view.
C6_VisibleRecomputedBeforeFetch ==
    [][Len(inflight') > Len(inflight) =>
           inflight'[Len(inflight')].visible =
               Range(MarkersWithin(view', NeighborhoodMarkers))]_vars

\* a request built by a moveend handler after the map has moved away from
\* its first region
C6_Witness ==
    /\ view # InitialView
    /\ \E i \in 1..Len(inflight) :
           /\ inflight[i].cause \in {"move", "locateMove"}
           /\ inflight[i].visible = Range(MarkersWithin(view, NeighborhoodMarkers))

\* the handlers of the set S, counted with their copies
RECURSIVE Copies(_)
Copies(S) ==
    IF S = {} THEN 0
    ELSE LET h == CHOOSE x \in S : TRUE
         IN  CopiesIn(h, handlers) + Copies(S \ {h})

HandlersOf(kind, k) ==
    {h \in BagToSet(handlers) : h.kind = kind /\ h.body.case_number = k}

Succeeded(kind, k) == Copies({h \in HandlersOf(kind, k) : h.status = 200})

\* handler h takes its step from pc to the answer or to the next await
Steps(h) == CopiesIn(h, handlers') < CopiesIn(h, handlers)

Gains(h) == CopiesIn(h, handlers') > CopiesIn(h, handlers)

\* C7: a create request (with its required fields) whose case_number is on
\* file when the handler looks it up leaves the table as it is and is
\* answered 500 'Error: case_number already exists'.
C7_DuplicateCreateRejected ==
    [][\A h \in BagToSet(handlers) :
           (/\ h.kind = "put"
            /\ h.pc = "select"
            /\ Len(SelectCase(store, h.body.case_number)) > 0
            /\ Steps(h)) =>
               (/\ store' = store
                /\ Gains(Answered(h, 500, "Error: case_number already exists")))]_vars

\* a create of a case on file has been answered as a duplicate
C7_Witness ==
    \E h \in BagToSet(handlers) :
        /\ h.kind = "put"
        /\ h.pc = "done"
        /\ h.text = "Error: case_number already exists"
        /\ Len(SelectCase(store, h.body.case_number)) = 1

\* C8: a delete request whose case_number is not on file when the handler
\* looks it up leaves the table as it is and is answered 500 'Error:
\* case_number does not exist'.
C8_DeleteMissingRejected ==
    [][\A h \in BagToSet(handlers) :
           (/\ h.kind = "delete"
            /\ h.pc = "select"
            /\ Len(SelectCase(store, h.body.case_number)) = 0
            /\ Steps(h)) =>
               (/\ store' = store
                /\ Gains(Answered(h, 500, "Error: case_number does not exist")))]_vars

\* a delete of a case not on file has been answered as not found
C8_Witness ==
    \E h \in BagToSet(handlers) :
        /\ h.kind = "delete"
        /\ h.pc = "done"
        /\ h.text = "Error: case_number does not exist"
        /\ Len(SelectCase(store, h.body.case_number)) = 0

\* C9: of the delete requests for one case_number that race, with no create
\* of that case around, exactly one succeeds: at most one is answered 200.
C9_RacingDeletesOneSucceeds ==
    \A k \in CaseNumbers :
        HandlersOf("put", k) = {} => Succeeded("delete", k) <= 1

\* C10: the table holds at most one row per case_number, and of the create
\* requests for one case_number, with no delete of that case around, at most
\* one is answered 200 (none when the case was on file from the start).
C10_CaseNumberUnique ==
    /\ \A i, j \in 1..Len(store) :
           i # j => store[i].case_number # store[j].case_number
    /\ \A k \in CaseNumbers :
           HandlersOf("delete", k) = {} =>
               Succeeded("put", k) <= (IF KeyConstraintFails(ServerInitialStore, k) THEN 0 ELSE 1)

\* two creates of the new case "B" raced past the lookup: one inserted, the
\* other's INSERT failed
C10_Witness ==
    /\ Succeeded("put", "B") = 1
    /\ \E h \in HandlersOf("put", "B") : h.text = "Internal server error"
    /\ Len(SelectCase(store, "B")) = 1

\* a request that lacks a required field
RequestIncomplete(h) ==
    \/ /\ h.kind = "put"
       /\ \/ h.body.case_number = "" \/ h.body.incident = "" \/ h.body.block = ""
          \/ h.body.date = 0 \/ h.body.time = 0 \/ h.body.code = 0
          \/ h.body.police_grid = 0 \/ h.body.neighborhood_number = 0
    \/ /\ h.kind = "delete"
       /\ h.body.case_number = ""

\* the upload form has a field with nothing, or nothing but white space, in it
FormHasBlank ==
    \/ newIncident.case_number \in {"", " "}
    \/ newIncident.incident \in {"", " "}
    \/ newIncident.block \in {"", " "}
    \/ newIncident.date = 0 \/ newIncident.time = 0
    \/ newIncident.code = <<>> \/ newIncident.police_grid = <<>>
    \/ newIncident.neighborhood_number = <<>>

UploadsSent == Copies(Uploads)

\* C11: a create request that lacks a required field, and a delete request
\* that lacks case_number, is answered 400 with the validation message as it
\* is received, without a step at the store, and the table is as it was; and
\* while the upload form has a blank field no step of the client sends a
\* create request.
C11_MissingFieldRejected ==
    /\ [](\A h \in BagToSet(handlers) :
             RequestIncomplete(h) =>
                 /\ h.pc = "done"
                 /\ h.status = 400
                 /\ h.text = (IF h.kind = "put" THEN "Missing required fields"
                                                ELSE "Missing case_number"))
    /\ [][(\E h \in BagToSet(handlers') : RequestIncomplete(h) /\ Gains(h))
              => store' = store]_vars
    /\ [][FormHasBlank => UploadsSent' <= UploadsSent]_vars

\* a create without block and a delete without case_number have been
\* answered 400, and submitNewIncident has refused a form with a blank field
C11_Witness ==
    /\ \E h \in BagToSet(handlers) :
           h.kind = "put" /\ h.body.block = "" /\ h.status = 400
    /\ \E h \in BagToSet(handlers) :
           h.kind = "delete" /\ h.body.case_number = "" /\ h.status = 400
    /\ FormHasBlank
    /\ newIncidentErr = "Missing"
    /\ Uploads = {}

\* the query q admits the record b
Admits(q, b) ==
    /\ q.start_date = 0 \/ q.start_date <= b.date
    /\ q.end_date = 0 \/ b.date <= q.end_date
    /\ parseIntList(q.code) = <<>> \/ b.code \in Range(parseIntList(q.code))
    /\ parseIntList(q.grid) = <<>> \/ b.police_grid \in Range(parseIntList(q.grid))
    /\ parseIntList(q.neighborhood) = <<>>
           \/ b.neighborhood_number \in Range(parseIntList(q.neighborhood))

\* the rows of the table that the query q admits, as records
Admitted(q) ==
    {i \in 1..Len(store) :
        Admits(q, [case_number |-> store[i].case_number, date |-> store[i].date_time[1],
                   code |-> store[i].code, police_grid |-> store[i].police_grid,
                   neighborhood_number |-> store[i].neighborhood_number])}

\* the limit a query asks for: 1000, or the positive number it gives
RequestedLimit(q) == IF q.limit = <<>> THEN 1000 ELSE parseInt(q.limit)[1]

\* how often the record b is among rows
Occurrences(rows, b) == Cardinality({i \in 1..Len(rows) : rows[i] = b})

\* C12: a create answered 200 leaves exactly one row of its case_number on
\* file; while that row is on file, a fetch whose query admits the record,
\* and admits no more rows than its limit, returns the record as it was
\* sent, once; a delete answered 200 leaves no row of the case_number, and
\* while there is none no fetch returns a row of it.
C12_CreateFetchDeleteRoundTrip ==
    [][\A h \in BagToSet(handlers') :
          Gains(h) =>
              /\ (h.kind = "put" /\ h.status = 200) =>
                     Len(SelectCase(store', h.body.case_number)) = 1
              /\ (h.kind = "delete" /\ h.status = 200) =>
                     Len(SelectCase(store', h.body.case_number)) = 0
              /\ (h.kind = "get" /\ h.pc = "done") =>
                     \A b \in {RoundTripBody} :
                         IF Len(SelectCase(store, b.case_number)) = 0
                         THEN \A i \in 1..Len(h.rows) :
                                  h.rows[i].case_number # b.case_number
                         ELSE (Admits(h.body, b)
                                 /\ Cardinality(Admitted(h.body)) <= RequestedLimit(h.body))
                                  => Occurrences(h.rows, b) = 1]_vars

\* the record was created and fetched, with and without parameters, and
\* deleted, and a fetch has then returned the table without it
C12_Witness ==
    /\ Succeeded("put", "B") = 1
    /\ Succeeded("delete", "B") = 1
    /\ \E h \in BagToSet(handlers) :
           h.kind = "get" /\ h.pc = "done" /\ h.body # NoParams
               /\ Occurrences(h.rows, RoundTripBody) = 1
    /\ \E h \in BagToSet(handlers) :
           h.kind = "get" /\ h.pc = "done" /\ h.body = NoParams /\ Len(h.rows) = 1
               /\ Occurrences(h.rows, RoundTripBody) = 0
    /\ Len(SelectCase(store, "B")) = 0

\* the fetches that have been answered
Fetched == {h \in BagToSet(handlers) : h.kind = "get" /\ h.pc = "done"}

\* the limit in force for a query: its limit when that is a number above 0,
\* and 1000 otherwise
LimitInForce(q) ==
    IF q.limit # <<>> /\ parseInt(q.limit) # <<>> /\ parseInt(q.limit)[1] > 0
    THEN parseInt(q.limit)[1] ELSE 1000

\* the row of the table with case_number k
RowOf(k) == store[CHOOSE i \in 1..Len(store) : store[i].case_number = k]

\* date and time of a at or after date and time of b
NotBefore(aDate, aTime, bDate, bTime) ==
    aDate > bDate \/ (aDate = bDate /\ aTime >= bTime)

Cases(rows) == {rows[i].case_number : i \in 1..Len(rows)}

Least(a, b) == IF a < b THEN a ELSE b

\* C13: a fetch returns no more rows than the limit in force; it returns
\* min(limit, number of admitted rows) rows, all admitted, and no admitted
\* row left out is more recent than a row returned: the cap cuts the
\* admitted rows in their order by date and time.
C13_LimitKeepsMostRecent ==
    \A h \in Fetched :
        LET admitted == {store[i].case_number : i \in Admitted(h.body)}
            returned == Cases(h.rows)
        IN  /\ Len(h.rows) <= LimitInForce(h.body)
            /\ Len(h.rows) = Least(LimitInForce(h.body), Cardinality(admitted))
            /\ Cardinality(returned) = Len(h.rows)
            /\ returned \subseteq admitted
            /\ \A cut \in admitted \ returned : \A kept \in returned :
                   NotBefore(RowOf(kept).date_time[1], RowOf(kept).date_time[2],
                             RowOf(cut).date_time[1], RowOf(cut).date_time[2])

\* a limit of 1 has cut two admitted rows off, and the row kept is the most
\* recent although the table holds it last
C13_Witness ==
    \E h \in Fetched :
        /\ h.body.limit = String(1)
        /\ Cardinality(Admitted(h.body)) = 3
        /\ Cases(h.rows) = {"C"}
        /\ store[3].case_number = "C"

\* C15: of two rows of one fetch, the one that comes first is dated at or
\* after the other, by date and then time, in whatever order the table
\* holds the rows.
C15_MostRecentFirst ==
    \A h \in Fetched :
        \A i, j \in 1..Len(h.rows) :
            i < j => NotBefore(h.rows[i].date, h.rows[i].time,
                               h.rows[j].date, h.rows[j].time)

\* all three rows returned from a table that holds them oldest first
C15_Witness ==
    \E h \in Fetched :
        /\ Len(h.rows) = 3
        /\ h.rows[1].case_number = "C" /\ h.rows[3].case_number = "A"
        /\ store[1].case_number = "A" /\ store[3].case_number = "C"

\* the set a list parameter stands for: the numbers among its items
DimensionSet(param) == Range(parseIntList(param))

\* C16: a row is returned by a fetch (whose limit cuts nothing off) iff its
\* date is within the bounds given and, for each of code, grid and
\* neighborhood, the set given is empty or has the row's value: AND across
\* the dimensions, membership within one, no restriction from an empty set.
C16_FilterSemantics ==
    \A h \in Fetched :
        LET q == h.body
            member(r) ==
                /\ q.start_date = 0 \/ q.start_date <= r.date_time[1]
                /\ q.end_date = 0 \/ r.date_time[1] <= q.end_date
                /\ DimensionSet(q.code) = {} \/ r.code \in DimensionSet(q.code)
                /\ DimensionSet(q.grid) = {} \/ r.police_grid \in DimensionSet(q.grid)
                /\ DimensionSet(q.neighborhood) = {}
                       \/ r.neighborhood_number \in DimensionSet(q.neighborhood)
        IN  q.limit = <<>> =>
                \A i \in 1..Len(store) :
                    store[i].case_number \in Cases(h.rows) <=> member(store[i])

\* code {2}, grid {} and neighborhood {2}: the one row that is in both sets
\* is returned, the row that is in the neighborhood alone is not
C16_Witness ==
    \E h \in Fetched :
        /\ h.body.limit = <<>>
        /\ DimensionSet(h.body.code) = {2}
        /\ DimensionSet(h.body.grid) = {}
        /\ DimensionSet(h.body.neighborhood) = {2}
        /\ h.body.start_date = 0 /\ h.body.end_date = 0
        /\ Cases(h.rows) = {"B"}

\* C17: with no other restriction and no limit cutting rows off, a fetch
\* returns the rows whose date is at or after start_date and at or before
\* end_date, for each bound that is given, whatever their time: the rows of
\* the very day of a bound are returned.
C17_DateBoundsInclusive ==
    \A h \in Fetched :
        LET q == h.body
        IN  (q.limit = <<>> /\ DimensionSet(q.code) = {} /\ DimensionSet(q.grid) = {}
                /\ DimensionSet(q.neighborhood) = {}) =>
                Cases(h.rows) =
                    {store[i].case_number : i \in
                        {j \in 1..Len(store) :
                            /\ q.start_date # 0 => store[j].date_time[1] >= q.start_date
                            /\ q.end_date # 0 => store[j].date_time[1] <= q.end_date}}

\* start_date = end_date = day 2: both rows of day 2 are returned, the one
\* of time 1 and the one of time 2
C17_Witness ==
    \E h \in Fetched :
        /\ h.body.start_date = 2 /\ h.body.end_date = 2
        /\ h.body.limit = <<>>
        /\ DimensionSet(h.body.code) = {} /\ DimensionSet(h.body.grid) = {}
        /\ DimensionSet(h.body.neighborhood) = {}
        /\ Cases(h.rows) = {"B", "C"}
        /\ {h.rows[i].time : i \in 1..Len(h.rows)} = {1, 2}

\* the limit the client asks for, as the Filters panel shows it
PanelLimit == IF filters.limit > 0 THEN filters.limit ELSE 1000

\* C14: a fetch is cut at its limit parameter when that is a number above
\* 0, and at 1000 when the parameter is absent, no number, zero or negative;
\* and what the client puts on display is cut at filters.limit when that is
\* above 0 and at 1000 otherwise.
C14_EffectiveLimit ==
    /\ [](\A h \in Fetched :
             Len(h.rows) = Least(LimitInForce(h.body), Cardinality(Admitted(h.body))))
    /\ [][\A i \in 1..Len(inflight) :
              Applied(i) =>
                  Len(incidents') =
                      Least(PanelLimit, Cardinality(Admitted(inflight[i].params)))]_vars

\* a fetch with limit 0 has returned the whole table, and the client shows
\* one row for a filters.limit of 1
C14_Witness ==
    /\ \E h \in Fetched : h.body.limit = String(0) /\ Len(h.rows) = Len(store)
    /\ filters.limit = 1
    /\ Len(incidents) = 1
    /\ ~ui.loadingIncidents

\* the rows of the table within the date bounds and the neighborhoods of
\* the client's request, whatever their code
AdmittedBesidesCode(q) ==
    {store[i].case_number : i \in Admitted([q EXCEPT !.code = <<>>])}

\* C18: with no type selected the effective code filter is empty, a request
\* built carries no code, and the response put on display has the rows the
\* other parameters admit, of every code (up to the limit).
C18_EmptyTypeSelectionNoRestriction ==
    /\ [](filters.selectedIncidentTypes = <<>> =>
             /\ finalCodeFilter(codes, filters.selectedIncidentTypes) = <<>>
             /\ \A i \in 1..Len(inflight) : inflight[i].params.code = <<>>)
    /\ [][\A i \in 1..Len(inflight) :
              (Applied(i) /\ filters.selectedIncidentTypes = <<>>) =>
                  /\ Cases(incidents') \subseteq AdmittedBesidesCode(inflight[i].params)
                  /\ Len(incidents') = Least(PanelLimit,
                         Cardinality(AdmittedBesidesCode(inflight[i].params)))]_vars

\* no type selected, and the incident whose code the catalog lacks is on
\* display with the others
C18_Witness ==
    /\ filters.selectedIncidentTypes = <<>>
    /\ filters.selectedNeighborhoodIds = <<>>
    /\ Cases(incidents) = {"A", "B", "C"}
    /\ \E j \in 1..Len(incidents) :
           \A i \in 1..Len(codes) : codes[i].code # incidents[j].code

\* the codes the catalog maps to the types selected
CodesOfSelection ==
    {c \in {codes[i].code : i \in 1..Len(codes)} :
        \E i \in 1..Len(codes) :
            codes[i].code = c /\ codes[i].type \in Range(filters.selectedIncidentTypes)}

LocateSearchFailed ==
    \E l \in locates :
        /\ locates' = locates \ {l}
        /\ normalizeBlock(l.block) \notin geocodeCache'

\* a step in which a moveend handler goes on after its reverse geocode
MoveendResumed ==
    \E cause \in {"user", "locate"} : moveHandlers'[cause] < moveHandlers[cause]

\* what the moveend handler does after the reverse geocode, whatever its
\* outcome: the visible set computed from the region on show stands, and the
\* re-fetch is issued for it unless the client is not initialized or the
\* suppression flag, consumed by this step, withholds it
ResumeEffect ==
    /\ UNCHANGED <<view, visibleNeighborhoodIds, filters, incidents, counts,
                   selectedIncidentMarker>>
    /\ Range(visibleNeighborhoodIds') = Range(MarkersWithin(view', NeighborhoodMarkers))
    /\ IF initialized /\ ~suppressNextMoveReload
       THEN /\ Len(inflight') = Len(inflight) + 1
            /\ SubSeq(inflight', 1, Len(inflight)) = inflight
            /\ inflight'[Len(inflight')].params =
                   FetchParams(filters, codes, visibleNeighborhoodIds)
            /\ ui'.loadingIncidents
            /\ UNCHANGED suppressNextMoveReload
       ELSE /\ inflight' = inflight
            /\ suppressNextMoveReload' = FALSE

\* C20: a failure of the geocoder changes no filter or query state.  When the
\* search of locateIncident fails or finds nothing, the region on show, the
\* visible set, the rows on display, the counts, the selected marker, the
\* suppression flag, the filters and the requests in flight are as before;
\* when the reverse geocode of a moveend handler fails, the handler goes on as
\* after an answer: the visible set stands and the re-fetch is issued.
C20_GeocodingFailureLeavesQueryState ==
    [][/\ LocateSearchFailed =>
              UNCHANGED <<view, visibleNeighborhoodIds, incidents, counts,
                          selectedIncidentMarker, suppressNextMoveReload, filters,
                          inflight, moveHandlers>>
       /\ MoveendResumed => ResumeEffect]_vars

\* a search of locateIncident has failed while the re-fetch of a moveend
\* handler whose reverse geocode failed is in flight: the location box shows
\* coordinates although the center has an address from an earlier answer
C20_Witness ==
    /\ ui.errorMsg = "Geocoding failed"
    /\ locates = {}
    /\ selectedIncidentMarker = ""
    /\ incidentMarkers = EmptyBag
    /\ ~suppressNextMoveReload
    /\ address = "address"
    /\ ui.locationQuery = Coordinates
    /\ Len(inflight) = 1
    /\ inflight[1].cause = "move"
    /\ inflight[1].visible = Range(MarkersWithin(view, NeighborhoodMarkers))

\* the rows on display that lie in neighborhood id
DisplayedIn(id) == SelectSeq(incidents, LAMBDA r : r.neighborhood_number = id)

\* no response has been put on display yet: the markers show no count
NothingApplied == \A id \in NeighborhoodMarkers : counts[id] = -1

\* C21: once a response has been put on display, the count each neighborhood
\* marker shows is the number of rows on display with that
\* neighborhood_number; rows and counts change together, so this holds in
\* every state, after failed and overlapping fetches too, and before the
\* first response no row is on display.
C21_CountsMatchDisplayedIncidents ==
    /\ [](IF NothingApplied
          THEN incidents = <<>>
          ELSE \A id \in NeighborhoodMarkers : counts[id] = Len(DisplayedIn(id)))
    /\ [][(incidents' # incidents \/ counts' # counts) =>
              \A id \in NeighborhoodMarkers :
                  counts'[id] = Len(SelectSeq(incidents',
                                     LAMBDA r : r.neighborhood_number = id))]_vars

\* rows of one neighborhood are on display, another marker counts none, the
\* last fetch to end has failed and another one is in flight
C21_Witness ==
    /\ Len(incidents) > 0
    /\ \E id \in NeighborhoodMarkers : counts[id] = 0
    /\ \E id \in NeighborhoodMarkers : counts[id] = Len(DisplayedIn(id)) /\ counts[id] > 0
    /\ ui.errorMsg = "Incident load failed"
    /\ Len(inflight) > 0

\* the row on display made of the raw row r: its columns kept, the type and
\* the name looked up in the catalogs, the number as text where the lookup
\* finds nothing
ProjectionOf(p, r) ==
    /\ \A col \in DOMAIN r : p[col] = r[col]
    /\ \A i \in 1..Len(codes) : codes[i].code = r.code => p.incident_type = codes[i].type
    /\ (\A i \in 1..Len(codes) : codes[i].code # r.code) =>
           p.incident_type = ToString(r.code)
    /\ \A i \in 1..Len(neighborhoods) :
           neighborhoods[i].id = r.neighborhood_number =>
               p.neighborhood_name = neighborhoods[i].name
    /\ (\A i \in 1..Len(neighborhoods) : neighborhoods[i].id # r.neighborhood_number) =>
           p.neighborhood_name = ToString(r.neighborhood_number)

\* C22: the projection of a response succeeds whatever the rows refer to: the
\* rows put on display are as many as the rows of the response and in their
\* order, each with the catalog type of its code, or the code as text when
\* the catalog lacks it, and the catalog name of its neighborhood, or the id
\* as text when the catalog lacks it.
C22_ProjectionFallsBack ==
    [][\A i \in 1..Len(inflight) :
           IncidentsResponse(i) =>
               LET rows == GetIncidents(store, inflight[i].params)
               IN  /\ Len(incidents') = Len(rows)
                   /\ \A k \in 1..Len(rows) : ProjectionOf(incidents'[k], rows[k])]_vars

\* three rows on display: one resolved in both catalogs, one of a code the
\* catalog lacks, one of a neighborhood the catalog lacks
C22_Witness ==
    /\ Len(incidents) = 3
    /\ \E k \in 1..3 : incidents[k].incident_type = "Theft" /\ incidents[k].neighborhood_name = "N1"
    /\ \E k \in 1..3 : incidents[k].code = 4 /\ incidents[k].incident_type = "4"
    /\ \E k \in 1..3 : incidents[k].neighborhood_number = 2 /\ incidents[k].neighborhood_name = "2"

\* the catalog requests that have been answered with rows
CatalogAnswers(kind) ==
    {h \in BagToSet(handlers) : h.kind = kind /\ h.pc = "done" /\ h.status = 200}

\* rows is, in ascending order of the column key, without repetition, the
\* rows of the set wanted
AscendingListOf(rows, key, wanted) ==
    /\ \A i, j \in 1..Len(rows) : i < j => rows[i][key] < rows[j][key]
    /\ Range(rows) = wanted

\* a step of a handler of GET /codes or GET /neighborhoods
CatalogStep ==
    \E h \in BagToSet(handlers') :
        /\ h.kind \in {"codes", "neighborhoods"}
        /\ CopiesIn(h, handlers') > CopiesIn(h, handlers)

\* C23: GET /codes and GET /neighborhoods answer with exactly the rows of
\* the table whose key is in the set of numbers given, with all rows when no
\* number is given, in ascending order of the key; no step of theirs changes
\* the Incidents table.
C23_CatalogListing ==
    /\ [](/\ \A h \in CatalogAnswers("codes") :
                AscendingListOf(h.rows, "code",
                    {[code |-> r.code, type |-> r.incident_type] :
                        r \in {t \in Range(CodesRows) :
                                  DimensionSet(h.body) = {} \/ t.code \in DimensionSet(h.body)}})
          /\ \A h \in CatalogAnswers("neighborhoods") :
                AscendingListOf(h.rows, "id",
                    {[id |-> r.neighborhood_number, name |-> r.neighborhood_name] :
                        r \in {t \in Range(NeighborhoodsRows) :
                                  \/ DimensionSet(h.body) = {}
                                  \/ t.neighborhood_number \in DimensionSet(h.body)}}))
    /\ [][CatalogStep => store' = store]_vars

\* a listing of two codes asked for out of order, and the whole list of
\* neighborhoods, answered after an upload has changed the Incidents table
C23_Witness ==
    /\ Len(store) = 2
    /\ \E h \in CatalogAnswers("codes") :
           /\ h.body = <<String(3), String(1)>>
           /\ Len(h.rows) = 2
           /\ h.rows[1].code = 1 /\ h.rows[2].code = 3
    /\ \E h \in CatalogAnswers("neighborhoods") :
           /\ h.body = <<>>
           /\ Len(h.rows) = 2
           /\ h.rows[1].id = 1 /\ h.rows[2].id = 2

\* C24: the suppression set by locateIncident is consumed by the moveend
\* handler of its own recenter only: once the client is initialized, the
\* moveend handler of every move the user makes calls fetchIncidents when it
\* goes on after its reverse geocode, in every interleaving with
\* locateIncident.
C24_UserMoveAlwaysRefetches ==
    [][(initialized /\ moveHandlers'.user < moveHandlers.user) =>
           /\ Len(inflight') = Len(inflight) + 1
           /\ inflight'[Len(inflight')].cause = "move"
           /\ suppressNextMoveReload' = suppressNextMoveReload]_vars

\* C25: while initialized is false the only fetch issued is the first one of
\* initializeCrimes, made when both catalogs have loaded: no change of the
\* filters and no move of the map issues one.  initialized becomes true only
\* with both catalogs loaded and in the step in which that first fetch
\* returns.  When a catalog fails to load, no fetch is ever issued and
\* initialized stays false.
C25_NoFetchBeforeInitialized ==
    /\ [][(~initialized /\ Len(inflight') > Len(inflight)) =>
              /\ initPc = "neighborhoods" /\ initPc' = "fetch"
              /\ inflight = <<>>
              /\ codes' = CodesTable /\ neighborhoods' = NeighborhoodsTable
              /\ filters' = filters /\ view' = view]_vars
    /\ [][(~initialized /\ initialized') =>
              /\ codes = CodesTable /\ neighborhoods = NeighborhoodsTable
              /\ initPc = "fetch"
              /\ Len(inflight) = 1 /\ inflight' = <<>>]_vars
    /\ [](initPc = "failed" => ~initialized /\ inflight = <<>>)
    /\ [][initPc = "failed" => initPc' = "failed"]_vars

\* the first fetch is in flight, alone, after the user has checked a
\* neighborhood and moved the map, and the handler of the move has ended
C25_Witness ==
    /\ ~initialized
    /\ initPc = "fetch"
    /\ Len(inflight) = 1
    /\ inflight[1].params.neighborhood = Join(<<1, 2>>)
    /\ filters.selectedNeighborhoodIds = <<2>>
    /\ view = <<1, 1>>
    /\ moveHandlers.user = 0

\* C26: at most one incident marker is on the map, and
\* map.selectedIncidentMarker is that marker (null when there is none), in
\* every interleaving of locateIncident and deleteIncident, with calls of
\* locateIncident suspended at the geocoder overlapping.
C26_OneSelectedIncidentMarker ==
    /\ BagCardinality(incidentMarkers) <= 1
    /\ BagToSet(incidentMarkers) = {selectedIncidentMarker} \ {""}

\* the marker of one case has replaced the marker of another while a
\* deletion is awaiting its fetch
C26_Witness ==
    /\ selectedIncidentMarker = "B"
    /\ incidentMarkers = SetToBag({"B"})
    /\ geocodeCache = {normalizeBlock("b1"), normalizeBlock("b2")}
    /\ \E i \in 1..Len(inflight) : inflight[i].cause = "delete"

\* every operation of the client has ended: no request awaits its answer,
\* no geocoding is awaited, no moveend handler is suspended
ClientAtRest ==
    /\ inflight = <<>>
    /\ locates = {}
    /\ moveHandlers.user = 0 /\ moveHandlers.locate = 0
    /\ Uploads = {}

\* C27: when a deleteIncident has succeeded for a case and the client's
\* operations have all ended, the selected marker is not the marker of that
\* case, also when a locateIncident of the case was awaiting the geocoder as
\* the deletion completed.  (The cases of the table at the start that are
\* gone from it are those the client has deleted.)
C27_NoMarkerOfDeletedCase ==
    (ClientAtRest /\ selectedIncidentMarker # "") =>
        \E i \in 1..Len(store) : store[i].case_number = selectedIncidentMarker

\* C28: when the fetch that follows a successful upload or deletion has
\* returned its rows, so that submitNewIncident or deleteIncident ends in
\* success, ui.successMsg is the message of that operation and ui.errorMsg is
\* empty.
C28_SuccessMessageShown ==
    [][\A i \in 1..Len(inflight) :
           (inflight[i].cause \in {"upload", "delete"} /\ IncidentsResponse(i)) =>
               (ui'.successMsg # "" /\ ui'.errorMsg = "")]_vars

\* C29: a record that passes the required-field check of submitNewIncident
\* passes the check of PUT /new-incident too: no upload the client sends,
\* a numeric field of value 0 included, is answered with the validation
\* error.
C29_ClientCheckImpliesServerCheck ==
    \A h \in Uploads : h.kind = "put" => h.status # 400

====
